---- MODULE Spec2Model ----
(***************************************************************************)
(* A model of openapi-skunkteam-types: the OpenApiDefinitionsGenerator     *)
(* visitor (generateSchemas) that converts @skunkteam/types descriptors to *)
(* OpenAPI 3.0 schema objects, and the command line tool that runs it for  *)
(* every host document and writes the results.                             *)
(*                                                                         *)
(* Strings are TLC strings; a JavaScript object is a function whose domain *)
(* is the set of its keys (a key whose value is undefined is left out, as  *)
(* the yaml dump leaves it out).  A literal value is a record of its basic *)
(* type and its String() form, so that 1 and '1' are different values with *)
(* the same object key.                                                    *)
(***************************************************************************)
EXTENDS Integers, Sequences, FiniteSets, TLC

\* ------------------------------------------------------------ bounds

\* the nesting of processType calls at which the engine's call stack overflows
MaxCallDepth == 5
\* the most host documents findSpecFiles discovers
MaxFiles == 3

\* how many calls of generateSchemas one process makes at most, one per file that has types
MaxRuns == 3

\* ------------------------------------------------------------ strings

Undefined == [undefined |-> TRUE]

\* a name that is undefined: customName's `return;` (every use of it tests truthiness)
NoName == ""

EmptyObject == <<>>

Char(s, i) == SubSeq(s, i, i)

WordChars ==
    { "a", "b", "c", "d", "e", "f", "g", "h", "i", "j", "k", "l", "m",
      "n", "o", "p", "q", "r", "s", "t", "u", "v", "w", "x", "y", "z",
      "A", "B", "C", "D", "E", "F", "G", "H", "I", "J", "K", "L", "M",
      "N", "O", "P", "Q", "R", "S", "T", "U", "V", "W", "X", "Y", "Z",
      "0", "1", "2", "3", "4", "5", "6", "7", "8", "9", "_" }

DigitChars == { "0", "1", "2", "3", "4", "5", "6", "7", "8", "9" }

\* /^\w+$/.test(name)
IsWord(name) == Len(name) > 0 /\ \A i \in 1..Len(name) : Char(name, i) \in WordChars

\* the characters basePath is split at: SEP = /[./]/g
SEP == { ".", "/" }

RECURSIVE SplitFrom(_, _, _, _)
\* s.split(SEP): i is the next position, cur the piece being read
SplitFrom(s, i, cur, acc) ==
    IF i > Len(s) THEN Append(acc, cur)
    ELSE IF Char(s, i) \in SEP THEN SplitFrom(s, i + 1, "", Append(acc, cur))
    ELSE SplitFrom(s, i + 1, cur \o Char(s, i), acc)

Split(s) == SplitFrom(s, 1, "", <<>>)

\* .filter(Boolean) on a list of strings: the empty string is falsy
FilterBoolean(seq) == SelectSeq(seq, LAMBDA x : x # "")

RECURSIVE Join(_, _)
Join(seq, sep) ==
    IF Len(seq) = 0 THEN ""
    ELSE IF Len(seq) = 1 THEN seq[1]
    ELSE seq[1] \o sep \o Join(Tail(seq), sep)

\* {...a, ...b}
Spread(a, b) == [k \in (DOMAIN a) \cup (DOMAIN b) |-> IF k \in DOMAIN b THEN b[k] ELSE a[k]]

\* {[to]: config[key]}, left out when config[key] is undefined
Optional(config, key, to) == IF key \in DOMAIN config THEN to :> config[key] ELSE EmptyObject

\* ------------------------------------------------------------ literal values

Lit(basic, repr) == [basic |-> basic, repr |-> repr]

NullValue == Lit("null", "null")

\* Number.isInteger(value)
IsInteger(v) ==
    /\ v.basic = "number"
    /\ Len(v.repr) > 0
    /\ \A i \in 1..Len(v.repr) : Char(v.repr, i) \in DigitChars

\* the property key a value becomes in Object.fromEntries
PropertyKey(v) == v.repr

\* ------------------------------------------------------------ type descriptors

(***************************************************************************)
(* A descriptor of @skunkteam/types as the generator reads it.  kind is    *)
(* the visit method accept() dispatches to; props joins type.props and     *)
(* type.propsInfo (the property's type and its partial flag, in key        *)
(* order); metadata and properties are the two parts of the                *)
(* OPENAPI_METADATA attachment (empty when nothing is attached).           *)
(* Descriptors are named by an identity (the JavaScript object), never by  *)
(* their display name: two descriptors may share a display name.           *)
(***************************************************************************)
BaseType(kind, name, basicType) ==
    [ kind |-> kind, name |-> name, basicType |-> basicType,
      typeConfig |-> EmptyObject, elementType |-> "", props |-> <<>>,
      types |-> <<>>, value |-> Undefined, keys |-> <<>>,
      possibleDiscriminators |-> <<>>,
      metadata |-> EmptyObject, properties |-> EmptyObject ]

Prop(name, type, partial) == [name |-> name, type |-> type, partial |-> partial]

LiteralType(value, name) == [BaseType("literal", name, value.basic) EXCEPT !.value = value]

ObjectType(name, props) == [BaseType("object", name, "object") EXCEPT !.props = props]

UnionType(name, basicType, types, discriminators) ==
    [BaseType("union", name, basicType) EXCEPT
        !.types = types, !.possibleDiscriminators = discriminators]

Discriminator(path, values) == [path |-> path, values |-> values]

\* openApiMetadata(type, metadata, properties)
openApiMetadata(type, metadata, properties) ==
    [type EXCEPT !.metadata = metadata, !.properties = properties]

KindDiscriminator(values) == <<Discriminator(<<"kind">>, values)>>

TypeIds ==
    { "int", "number", "Percentage", "string", "boolean",
      "unknown", "unknownRecord", "unknownArray", "Slug",
      "Lower", "litA", "litB", "lit1", "litS1",
      "litTrue", "litFalse", "null", "otherNull", "Category",
      "Category[]", "string[]", "Status", "Pet", "FooA",
      "FooB", "Foo2", "Foos", "PetRef", "Owner",
      "FooA | null", "MaybeCategory", "null | string[]", "Nothing",
      "FooA | FooB | null", "AB", "{ kind: \"b\" }", "Partly", "One",
      "OneS", "Ones", "Deep", "Flag", "string | int",
      "Record", "Custom", "Holder", "Bad",
      "Node", "Adoption" }

Descriptor(t) ==
    \* primitives, as exported by the library
    CASE t = "int" -> ([BaseType("number", "int", "number") EXCEPT
                    !.typeConfig = "multipleOf" :> 1])
      [] t = "number" -> (BaseType("number", "number", "number"))
      [] t = "Percentage" -> ([BaseType("number", "Percentage", "number") EXCEPT
                    !.typeConfig = ("min" :> 0) @@ ("maxExclusive" :> 100)])
      [] t = "string" -> (BaseType("string", "string", "string"))
      [] t = "boolean" -> (BaseType("boolean", "boolean", "boolean"))
      [] t = "unknown" -> (BaseType("unknown", "unknown", "mixed"))
      [] t = "unknownRecord" -> (BaseType("unknownRecord", "Record<string, unknown>", "object"))
      [] t = "unknownArray" -> (BaseType("unknownArray", "unknown[]", "array"))
    \* strings with a pattern: Slug has none of the regular expression flags, Lower has /i
      [] t = "Slug" -> ([BaseType("string", "Slug", "string") EXCEPT
                    !.typeConfig = ("pattern" :> [source |-> "^[a-z]+$", flags |-> ""])
                                   @@ ("minLength" :> 1)])
      [] t = "Lower" -> ([BaseType("string", "Lower", "string") EXCEPT
                    !.typeConfig = "pattern" :> [source |-> "^[a-z]+$", flags |-> "i"]])
    \* literals
      [] t = "litA" -> (LiteralType(Lit("string", "a"), "\"a\""))
      [] t = "litB" -> (LiteralType(Lit("string", "b"), "\"b\""))
      [] t = "lit1" -> (LiteralType(Lit("number", "1"), "1"))
      [] t = "litS1" -> (LiteralType(Lit("string", "1"), "\"1\""))
      [] t = "litTrue" -> (LiteralType(Lit("boolean", "true"), "true"))
      [] t = "litFalse" -> (LiteralType(Lit("boolean", "false"), "false"))
      [] t = "null" -> (LiteralType(NullValue, "null"))
      [] t = "otherNull" -> (LiteralType(NullValue, "null"))
    \* the petstore types of types.ts
      [] t = "Category" -> (openApiMetadata(
            ObjectType("Category", <<Prop("id", "int", TRUE), Prop("name", "string", TRUE)>>),
            "description" :> "The Category",
            "name" :> ("example" :> "Dogs")))
      [] t = "Category[]" -> ([BaseType("array", "Category[]", "array") EXCEPT
                    !.elementType = "Category"])
      [] t = "string[]" -> ([BaseType("array", "string[]", "array") EXCEPT
                    !.elementType = "string", !.typeConfig = "minLength" :> 1])
      [] t = "Status" -> ([BaseType("keyof", "Status", "string") EXCEPT
                    !.keys = <<"available", "pending", "sold">>])
      [] t = "Pet" -> (openApiMetadata(
            ObjectType("Pet", << Prop("name", "string", FALSE),
                                 Prop("photoUrls", "string[]", FALSE),
                                 Prop("category", "Category", TRUE),
                                 Prop("tags", "Category[]", TRUE) >>),
            "description" :> "A Pet",
            "name" :> ("example" :> "doggie")))
    \* three descriptors that share the display names Foo and Foo2
      [] t = "FooA" -> (ObjectType("Foo", <<Prop("kind", "litA", FALSE)>>))
      [] t = "FooB" -> (ObjectType("Foo", <<Prop("kind", "litB", FALSE)>>))
      [] t = "Foo2" -> (ObjectType("Foo2", <<Prop("kind", "lit1", FALSE)>>))
      [] t = "Foos" -> (ObjectType("Foos", << Prop("a", "FooA", FALSE), Prop("two", "Foo2", TRUE),
                                        Prop("b", "FooB", FALSE), Prop("again", "FooA", TRUE) >>))
    \* a descriptor whose display name is a likely logical name of another type
      [] t = "PetRef" -> (ObjectType("Pet", <<Prop("id", "int", FALSE)>>))
      [] t = "Owner" -> (ObjectType("Owner", <<Prop("pet", "PetRef", TRUE)>>))
    \* nullable unions
      [] t = "FooA | null" -> (UnionType("Foo | null", "mixed", <<"FooA", "null">>, <<>>))
      [] t = "MaybeCategory" -> ([UnionType("MaybeCategory", "mixed", <<"null", "Category">>, <<>>)
                    EXCEPT !.metadata = ("description" :> "A category, when known")
                                   @@ ("deprecated" :> TRUE)])
      [] t = "null | string[]" -> (UnionType("null | string[]", "mixed", <<"null", "string[]">>, <<>>))
      [] t = "Nothing" -> (UnionType("Nothing", "null", <<"null", "otherNull">>, <<>>))
      [] t = "FooA | FooB | null" -> (UnionType("Foo | Foo | null", "mixed",
                    <<"FooA", "FooB", "null">>, KindDiscriminator(<<Lit("string", "a"), Lit("string", "b")>>)))
    \* unions with a possible discriminator
      [] t = "AB" -> ([UnionType("AB", "object", <<"FooA", "FooB">>,
                    KindDiscriminator(<<Lit("string", "a"), Lit("string", "b")>>))
                    EXCEPT !.metadata = "description" :> "Either Foo"])
      [] t = "{ kind: \"b\" }" -> (ObjectType("{ kind: \"b\" }", <<Prop("kind", "litB", FALSE)>>))
      [] t = "Partly" -> (UnionType("Partly", "object", <<"FooA", "{ kind: \"b\" }">>,
                    KindDiscriminator(<<Lit("string", "a"), Lit("string", "b")>>)))
      [] t = "One" -> (ObjectType("One", <<Prop("kind", "lit1", FALSE)>>))
      [] t = "OneS" -> (ObjectType("OneS", <<Prop("kind", "litS1", FALSE)>>))
      [] t = "Ones" -> (UnionType("Ones", "object", <<"One", "OneS">>,
                    KindDiscriminator(<<Lit("number", "1"), Lit("string", "1")>>)))
      [] t = "Deep" -> (UnionType("Deep", "object", <<"FooA", "FooB">>,
                    <<Discriminator(<<"inner", "kind">>, <<Lit("string", "a"), Lit("string", "b")>>)>>))
      [] t = "Flag" -> (UnionType("Flag", "boolean", <<"litTrue", "litFalse">>, <<>>))
      [] t = "string | int" -> (UnionType("string | int", "mixed", <<"string", "int">>, <<>>))
    \* unsupported categories
      [] t = "Record" -> (BaseType("record", "Record<string, int>", "object"))
      [] t = "Custom" -> (BaseType("custom", "Custom", "mixed"))
      [] t = "Holder" -> (ObjectType("Holder", << Prop("id", "int", FALSE), Prop("rec", "Record", FALSE),
                                            Prop("low", "Lower", TRUE) >>))
    \* a per-property override on a property whose type is a named type
      [] t = "Bad" -> (openApiMetadata(
            ObjectType("Bad", <<Prop("name", "string", FALSE), Prop("id", "int", TRUE)>>),
            EmptyObject,
            ("name" :> ("example" :> "theUser")) @@ ("id" :> ("example" :> "10"))))
    \* an object with properties of a named nullable union and of a named string
      [] t = "Adoption" -> (ObjectType("Adoption", <<Prop("category", "MaybeCategory", TRUE),
                                                     Prop("slug", "Slug", FALSE)>>))
    \* a descriptor that refers to itself
      [] t = "Node" -> (ObjectType("Node", <<Prop("value", "string", FALSE), Prop("next", "Node", TRUE)>>))

\* the caller-supplied names of the input mapping
LogicalNames == { "Pet", "Foo" }

\* the basePath arguments: the command line tool's and the empty one
BasePaths == { "components/schemas", "" }

\* ------------------------------------------------------------ state

VARIABLES
    descriptors,            \* the type descriptors in memory, by identity
    basePathArg,            \* generateSchemas' basePath argument
    types,                  \* generateSchemas' types argument: entries [name, type] in key order
    basePath,               \* OpenApiDefinitionsGenerator.basePath: the prefix of every $ref
    topLevelTypes,          \* Map type -> name, as its entries in insertion order
    schemas,                \* the output table: chosen name -> schema object
    availableDefinitions,   \* Map type -> the $ref stub or the inline schema
    typeStack,              \* the types being processed, outermost first
    frames,                 \* the call stack: one visit method per frame and the results
                            \* of the processType calls it has made so far
    cursor,                 \* processTypes: how many of topLevelTypes' keys it has passed
    status,                 \* "running", "returned" (generateSchemas returned) or "exit"
    output,                 \* what generateSchemas returned
    error,                  \* the error caught in processType and printed before exit
    reportedPath,           \* the names printed with it: typeStack.map(t => t.name)
    accepted,               \* history: how often type.accept(this) was called, per type
    built,                  \* history: type -> the schema its visit method returned
    registered,             \* history: the [key, type] stored in schemas, in order
    calls,                  \* history: the calls of generateSchemas that returned earlier in
                            \* this process, as [basePath, types, output, registered]
    files,                  \* command line tool: the paths findSpecFiles returned
    phase,                  \* where the main function of the command line tool is
    task,                   \* file -> where its processFile promise is
    pendingWrites,          \* file -> the WritableFiles its processFile returned
    writeTask,              \* per element of pendingWrites.flat(): where its writeFile is
    written,                \* history: the paths promises.writeFile has written
    exitCode                \* the exit code of the process, -1 while it runs

genVars == << descriptors, basePathArg, types, basePath, topLevelTypes, schemas, availableDefinitions,
              typeStack, frames, cursor, status, output, error, reportedPath,
              accepted, built, registered, calls >>

cliVars == << files, phase, task, pendingWrites, writeTask, written, exitCode >>

vars == << genVars, cliVars >>

Type(t) == descriptors[t]

\* ------------------------------------------------------------ Map

MapHas(map, key) == \E i \in 1..Len(map) : map[i].key = key

MapGet(map, key) ==
    IF MapHas(map, key)
    THEN map[CHOOSE i \in 1..Len(map) : map[i].key = key].value
    ELSE NoName

\* Map.set: a key that is present keeps its place
MapSet(map, key, value) ==
    IF MapHas(map, key)
    THEN [i \in 1..Len(map) |-> IF map[i].key = key THEN [key |-> key, value |-> value] ELSE map[i]]
    ELSE Append(map, [key |-> key, value |-> value])

RECURSIVE CollectTopLevel(_, _)
\* the constructor: Object.entries(topLevelTypes).forEach(([name, type]) => set(type, name))
CollectTopLevel(entries, map) ==
    IF Len(entries) = 0 THEN map
    ELSE CollectTopLevel(Tail(entries), MapSet(map, Head(entries).type, Head(entries).name))

\* ['#', ...basePath.split(SEP).filter(Boolean)].join('/')
RefPrefix(arg) == Join(<<"#">> \o FilterBoolean(Split(arg)), "/")

\* ------------------------------------------------------------ the visitor

TypeConfig(t) == Type(t).typeConfig

customName(t) ==
    LET name == MapGet(topLevelTypes, t) IN
    IF name # NoName THEN name
    ELSE IF \/ ~IsWord(Type(t).name)
            \/ Type(t).name = Type(t).basicType
            \/ Type(t).kind = "literal"
         THEN NoName
         ELSE Type(t).name

\* title: this.customName(type)
Title(t) == IF customName(t) = NoName THEN EmptyObject ELSE "title" :> customName(t)

\* {...schema, ...type[OPENAPI_METADATA]?.metadata}
withMetadata(t, schema) == Spread(schema, Type(t).metadata)

visitArrayType(t, results) ==
    withMetadata(t, Title(t) @@ ("type" :> "array") @@ ("items" :> results[1])
                    @@ Optional(TypeConfig(t), "minLength", "minItems")
                    @@ Optional(TypeConfig(t), "maxLength", "maxItems"))

visitBooleanType(t) == withMetadata(t, Title(t) @@ ("type" :> "boolean"))

\* Required without the filter: Object.keys(type.propsInfo)
RequiredUnfiltered(t) == [i \in 1..Len(Type(t).props) |-> Type(t).props[i].name]

\* Object.keys(type.propsInfo).filter(prop => type.propsInfo[prop]?.partial === false)
Required(t) ==
    LET mandatory == SelectSeq(Type(t).props, LAMBDA p : p.partial = FALSE)
    IN  [i \in 1..Len(mandatory) |-> mandatory[i].name]

PropNames(t) == { Type(t).props[i].name : i \in 1..Len(Type(t).props) }

PropIndex(t, prop) == CHOOSE i \in 1..Len(Type(t).props) : Type(t).props[i].name = prop

\* results holds, per property, what the mapValues callback returned
visitObjectLikeType(t, results) ==
    withMetadata(t, Title(t) @@ ("type" :> "object")
                    @@ ("properties" :> [prop \in PropNames(t) |-> results[PropIndex(t, prop)]])
                    @@ (IF Len(Required(t)) > 0 THEN "required" :> Required(t) ELSE EmptyObject))

visitKeyofType(t) ==
    withMetadata(t, Title(t) @@ ("type" :> "string")
                    @@ ("enum" :> [i \in 1..Len(Type(t).keys) |-> Lit("string", Type(t).keys[i])]))

visitLiteralType(t) ==
    withMetadata(t, Title(t)
                    @@ ("type" :> IF IsInteger(Type(t).value) THEN "integer" ELSE Type(t).basicType)
                    @@ ("enum" :> <<Type(t).value>>))

\* typeConfig holds integers only, so Number.isInteger(multipleOf) is "multipleOf is set"
visitNumberType(t) ==
    LET c == TypeConfig(t) IN
    withMetadata(t, Title(t)
        @@ ("type" :> IF "multipleOf" \in DOMAIN c THEN "integer" ELSE "number")
        @@ (IF "minExclusive" \in DOMAIN c
            THEN ("minimum" :> c.minExclusive) @@ ("exclusiveMinimum" :> TRUE)
            ELSE Optional(c, "min", "minimum"))
        @@ (IF "maxExclusive" \in DOMAIN c
            THEN ("maximum" :> c.maxExclusive) @@ ("exclusiveMaximum" :> TRUE)
            ELSE Optional(c, "max", "maximum"))
        @@ (IF "multipleOf" \in DOMAIN c /\ c.multipleOf # 1
            THEN "multipleOf" :> c.multipleOf ELSE EmptyObject))

\* pattern.toString()
PatternToString(pattern) == "/" \o pattern.source \o "/" \o pattern.flags

\* s.slice(1, -1)
Slice1(s) == SubSeq(s, 2, Len(s) - 1)

\* getFormat(type) has no case but the default
getFormat(t) == EmptyObject

visitStringType(t) ==
    LET c == TypeConfig(t) IN
    withMetadata(t, Title(t) @@ ("type" :> "string")
        @@ (IF "pattern" \in DOMAIN c
            THEN "pattern" :> Slice1(PatternToString(c.pattern)) ELSE EmptyObject)
        @@ Optional(c, "minLength", "minLength")
        @@ Optional(c, "maxLength", "maxLength")
        @@ getFormat(t))

visitUnknownType(t) == withMetadata(t, Title(t))

visitUnknownRecordType(t) == withMetadata(t, Title(t) @@ ("type" :> "object"))

visitUnknownArrayType(t) ==
    withMetadata(t, Title(t) @@ ("type" :> "array") @@ ("items" :> EmptyObject))

\* subtype instanceof LiteralType && subtype.value === null
IsNullLiteral(t) == Type(t).kind = "literal" /\ Type(t).value = NullValue

\* type.types.findIndex(...), counted from 1; 0 when there is none
NullIndex(t) ==
    LET hits == { i \in 1..Len(Type(t).types) : IsNullLiteral(Type(t).types[i]) }
    IN  IF hits = {} THEN 0 ELSE CHOOSE i \in hits : \A j \in hits : i <= j

\* nullIndex >= 0 && type.types.length === 2
IsNullable(t) == Type(t).kind = "union" /\ NullIndex(t) > 0 /\ Len(Type(t).types) = 2

\* NulledType with the index of the null literal itself
NulledTypeSame(t) == Type(t).types[NullIndex(t)]

\* type.types[1 - nullIndex]
NulledType(t) == Type(t).types[3 - NullIndex(t)]

\* t instanceof BaseObjectLikeTypeImpl, t.props[propertyName] instanceof LiteralType and
\* prop.value === v
HasLiteralProp(t, propertyName, v) ==
    /\ Type(t).kind = "object"
    /\ propertyName \in PropNames(t)
    /\ LET prop == Type(t).props[PropIndex(t, propertyName)].type
       IN  Type(prop).kind = "literal" /\ Type(prop).value = v

\* type.types.find(...): the first such member, "" when there is none
FindSubType(t, propertyName, v) ==
    LET hits == { i \in 1..Len(Type(t).types) : HasLiteralProp(Type(t).types[i], propertyName, v) }
    IN  IF hits = {} THEN ""
        ELSE Type(t).types[CHOOSE i \in hits : \A j \in hits : i <= j]

\* [v, ref && '$ref' in ref ? ref.$ref : undefined]: processType(subType) is answered by
\* availableDefinitions, every member of the union having been processed for oneOf
Mappings(t) ==
    LET discriminator == Type(t).possibleDiscriminators[1]
        propertyName == discriminator.path[1]
    IN  [ i \in 1..Len(discriminator.values) |->
            LET v == discriminator.values[i]
                subType == FindSubType(t, propertyName, v)
                ref == IF subType = "" THEN EmptyObject ELSE availableDefinitions[subType]
            IN  [value |-> v, ref |-> IF "$ref" \in DOMAIN ref THEN ref["$ref"] ELSE ""] ]

\* Object.fromEntries(mappings): a later entry with the same key replaces an earlier one
FromEntries(entries) ==
    [ k \in { PropertyKey(entries[i].value) : i \in 1..Len(entries) } |->
        LET last == CHOOSE i \in 1..Len(entries) :
                        /\ PropertyKey(entries[i].value) = k
                        /\ \A j \in 1..Len(entries) : PropertyKey(entries[j].value) = k => j <= i
        IN  entries[last].ref ]

\* the special case of a union of two types of which one is null
NullableSchema(t, results) ==
    ("description" :> "Nullable " \o (IF customName(NulledType(t)) # NoName
                                       THEN customName(NulledType(t))
                                       ELSE Type(NulledType(t)).name))
    @@ ("allOf" :> <<results[1]>>)
    @@ ("nullable" :> TRUE)

WithDiscriminator(t, oneOf) ==
    IF /\ Len(Type(t).possibleDiscriminators) = 1
       /\ Len(Type(t).possibleDiscriminators[1].path) = 1
       /\ \A i \in 1..Len(Mappings(t)) : Mappings(t)[i].ref # ""
    THEN Spread(oneOf, "discriminator" :>
            [ propertyName |-> Type(t).possibleDiscriminators[1].path[1],
              mapping |-> FromEntries(Mappings(t)) ])
    ELSE oneOf

visitUnionType(t, results) ==
    IF IsNullable(t) THEN NullableSchema(t, results)
    ELSE IF Type(t).basicType = "boolean" THEN withMetadata(t, Title(t) @@ ("type" :> "boolean"))
    ELSE WithDiscriminator(t, withMetadata(t, Title(t) @@ ("oneOf" :> results)))

\* the types a visit method hands to this.processType, in the order of the calls, before it
\* builds its schema
Children(t) ==
    CASE Type(t).kind = "array" -> <<Type(t).elementType>>
      [] Type(t).kind = "object" -> [i \in 1..Len(Type(t).props) |-> Type(t).props[i].type]
      [] Type(t).kind = "union" ->
            IF IsNullable(t) THEN <<NulledType(t)>>
            ELSE IF Type(t).basicType = "boolean" THEN <<>>
            ELSE Type(t).types
      [] OTHER -> <<>>

\* the message of the error a visit method throws before any other step, "" when it throws none
VisitThrows(t) ==
    CASE Type(t).kind = "record" -> "Method not implemented."
      [] Type(t).kind = "custom" -> "Method not implemented."
      [] Type(t).kind = "literal" /\ Type(t).basicType \notin {"number", "string", "boolean"} ->
            Type(t).basicType \o " literal not supported yet"
      [] /\ Type(t).kind = "string"
         /\ "pattern" \in DOMAIN TypeConfig(t)
         /\ TypeConfig(t).pattern.flags # "" ->
            "Regular expression flags are not supported in OpenAPI"
      [] OTHER -> ""

\* type.accept(this), once the processType calls of the visit method have returned results
Accept(t, results) ==
    CASE Type(t).kind = "array" -> visitArrayType(t, results)
      [] Type(t).kind = "boolean" -> visitBooleanType(t)
      [] Type(t).kind = "object" -> visitObjectLikeType(t, results)
      [] Type(t).kind = "keyof" -> visitKeyofType(t)
      [] Type(t).kind = "literal" -> visitLiteralType(t)
      [] Type(t).kind = "number" -> visitNumberType(t)
      [] Type(t).kind = "string" -> visitStringType(t)
      [] Type(t).kind = "union" -> visitUnionType(t, results)
      [] Type(t).kind = "unknown" -> visitUnknownType(t)
      [] Type(t).kind = "unknownRecord" -> visitUnknownRecordType(t)
      [] Type(t).kind = "unknownArray" -> visitUnknownArrayType(t)

NoError == [message |-> "", prop |-> "", metadata |-> EmptyObject]

\* PropertySchema without the check for $ref
PropertySchemaMerged(t, index, schema) ==
    LET prop == Type(t).props[index].name IN
    IF prop \notin DOMAIN Type(t).properties
    THEN [thrown |-> NoError, schema |-> schema]
    ELSE [thrown |-> NoError, schema |-> Spread(schema, Type(t).properties[prop])]

\* the mapValues callback of visitObjectLikeType, after this.processType(propType) returned
\* schema for the index-th property: what it returns, or what it throws
PropertySchema(t, index, schema) ==
    LET prop == Type(t).props[index].name IN
    IF prop \notin DOMAIN Type(t).properties
    THEN [thrown |-> NoError, schema |-> schema]
    ELSE IF "$ref" \in DOMAIN schema
    THEN [ thrown |-> [ message |-> "Metadata cannot be added to a $ref property",
                        prop |-> prop, metadata |-> Type(t).properties[prop] ],
           schema |-> EmptyObject ]
    ELSE [thrown |-> NoError, schema |-> Spread(schema, Type(t).properties[prop])]

\* what the visit method of t does with the result of its index-th processType call
Continue(t, index, schema) ==
    IF Type(t).kind = "object" THEN PropertySchema(t, index, schema)
    ELSE [thrown |-> NoError, schema |-> schema]

\* ------------------------------------------------------------ processType

\* obj[key] = value
SetKey(obj, key, value) ==
    [k \in (DOMAIN obj) \cup {key} |-> IF k = key THEN value ELSE obj[k]]

RECURSIVE UniqueName(_, _, _, _)
\* for (let i = 2; name in this.schemas; name = `${type.name}${i++}`);
UniqueName(table, typeName, name, i) ==
    IF name \notin DOMAIN table THEN name
    ELSE UniqueName(table, typeName, typeName \o ToString(i), i + 1)

\* the name a type is registered under, NoName for an anonymous type
ChosenName(t) ==
    IF customName(t) = NoName THEN NoName
    ELSE UniqueName(schemas, Type(t).name, customName(t), 2)

\* Reference without this.basePath: a pointer from the root of the document
ReferenceFromRoot(name) == "$ref" :> ("#/" \o name)

\* { $ref: `${this.basePath}/${name}` }
Reference(name) == "$ref" :> (basePath \o "/" \o name)

\* Definition with the schema of a named type remembered in place of its reference
DefinitionInline(t, result) == result

\* what availableDefinitions remembers for a type: the reference of a named type, the
\* schema itself of an anonymous one
Definition(t, result) ==
    IF customName(t) = NoName THEN result ELSE Reference(ChosenName(t))

\* this.availableDefinitions.get(type) finds a result
IsAvailable(t) == t \in DOMAIN availableDefinitions

\* StackNames with the name of the innermost type only
StackNamesInnermost(stack) == IF stack = <<>> THEN <<>> ELSE <<Type(stack[Len(stack)]).name>>

\* this.typeStack.map(t => t.name)
StackNames(stack) == [i \in 1..Len(stack) |-> Type(stack[i]).name]

\* the type the running code passes to this.processType next: the next key of
\* topLevelTypes in processTypes, the next child in a visit method; "" when there is none
NextCall ==
    IF frames = <<>>
    THEN IF cursor < Len(topLevelTypes) THEN topLevelTypes[cursor + 1].key ELSE ""
    ELSE LET top == frames[Len(frames)] IN
         IF Len(top.results) < Len(Children(top.type))
         THEN Children(top.type)[Len(top.results) + 1]
         ELSE ""

\* the catch block of processType: print the path and the error, process.exit(1)
Exit(thrown, stack, callers) ==
    /\ status' = "exit"
    /\ error' = thrown
    /\ reportedPath' = StackNames(stack)
    /\ typeStack' = stack
    /\ frames' = callers
    /\ UNCHANGED cursor

\* processType returns result to its caller: processTypes drops it, a visit method goes on
\* with it; an error the visit method throws then is caught by the processType that
\* called the visit method
Receive(result, stack, callers) ==
    IF callers = <<>>
    THEN /\ cursor' = cursor + 1
         /\ frames' = callers
         /\ typeStack' = stack
         /\ UNCHANGED << status, error, reportedPath >>
    ELSE LET top == callers[Len(callers)]
             next == Continue(top.type, Len(top.results) + 1, result)
         IN  IF next.thrown # NoError
             THEN Exit(next.thrown, stack, callers)
             ELSE /\ frames' = [callers EXCEPT ![Len(callers)].results = Append(@, next.schema)]
                  /\ typeStack' = stack
                  /\ UNCHANGED << cursor, status, error, reportedPath >>

\* processType(type) when availableDefinitions has a result for type
ProcessTypeAvailable ==
    /\ status = "running"
    /\ NextCall # ""
    /\ IsAvailable(NextCall)
    /\ Receive(availableDefinitions[NextCall], typeStack, frames)
    /\ UNCHANGED << descriptors, basePathArg, types, basePath, topLevelTypes, schemas,
                    availableDefinitions, output, accepted, built, registered >>
    /\ UNCHANGED << calls, cliVars >>

\* processType(type) when it has none: push the type and call type.accept(this), up to the
\* visit method's first processType call or to the error it throws
ProcessTypeAccept ==
    /\ status = "running"
    /\ NextCall # ""
    /\ ~IsAvailable(NextCall)
    /\ LET t == NextCall IN
       IF Len(frames) >= MaxCallDepth
       THEN /\ Exit([NoError EXCEPT !.message = "Maximum call stack size exceeded"],
                    typeStack, frames)
            /\ UNCHANGED accepted
       ELSE /\ accepted' = [accepted EXCEPT ![t] = @ + 1]
            /\ IF VisitThrows(t) # ""
               THEN Exit([NoError EXCEPT !.message = VisitThrows(t)], Append(typeStack, t), frames)
               ELSE /\ typeStack' = Append(typeStack, t)
                    /\ frames' = Append(frames, [type |-> t, results |-> <<>>])
                    /\ UNCHANGED << cursor, status, error, reportedPath >>
    /\ UNCHANGED << descriptors, basePathArg, types, basePath, topLevelTypes, schemas,
                    availableDefinitions, output, built, registered >>
    /\ UNCHANGED << calls, cliVars >>

\* the visit method returns its schema; processType pops the type, registers the schema
\* under a unique name or as an anonymous type, and returns
ProcessTypeReturn ==
    /\ status = "running"
    /\ frames # <<>>
    /\ NextCall = ""
    /\ LET top == frames[Len(frames)]
           t == top.type
           result == Accept(t, top.results)
       IN  /\ schemas' = IF customName(t) = NoName THEN schemas
                         ELSE SetKey(schemas, ChosenName(t), result)
           /\ registered' = IF customName(t) = NoName THEN registered
                            ELSE Append(registered, [key |-> ChosenName(t), type |-> t])
           /\ availableDefinitions' = SetKey(availableDefinitions, t, Definition(t, result))
           /\ built' = SetKey(built, t, result)
           /\ Receive(Definition(t, result), SubSeq(typeStack, 1, Len(typeStack) - 1),
                      SubSeq(frames, 1, Len(frames) - 1))
    /\ UNCHANGED << descriptors, basePathArg, types, basePath, topLevelTypes, output, accepted >>
    /\ UNCHANGED << calls, cliVars >>

RECURSIVE SetPath(_, _)
\* lodash set({}, path, value)
SetPath(path, value) ==
    IF Len(path) = 0 THEN value ELSE Head(path) :> SetPath(Tail(path), value)

\* basePath.replace(SEP, '.') read by lodash as a property path
PropertyPath(arg) == Split(arg)

\* processTypes has passed every key: generateSchemas returns the table under basePath
GenerateSchemasReturn ==
    /\ status = "running"
    /\ frames = <<>>
    /\ cursor = Len(topLevelTypes)
    /\ status' = "returned"
    /\ output' = IF basePathArg # "" THEN SetPath(PropertyPath(basePathArg), schemas) ELSE schemas
    /\ UNCHANGED << descriptors, basePathArg, types, basePath, topLevelTypes, schemas, availableDefinitions,
                    typeStack, frames, cursor, error, reportedPath, accepted, built, registered >>
    /\ UNCHANGED << calls, cliVars >>

\* ------------------------------------------------------------ command line tool

CONCURRENCY == 10

EndsWith(s, suffix) ==
    Len(s) >= Len(suffix) /\ SubSeq(s, Len(s) - Len(suffix) + 1, Len(s)) = suffix

\* s.replace(/<suffix>$/, to)
ReplaceSuffix(s, suffix, to) ==
    IF EndsWith(s, suffix) THEN SubSeq(s, 1, Len(s) - Len(suffix)) \o to ELSE s

\* filename.replace(/\.yaml$/, '.types.yaml').replace(/\.yml$/, '.types.yml')
typesFileExtension(filename) ==
    ReplaceSuffix(ReplaceSuffix(filename, ".yaml", ".types.yaml"), ".yml", ".types.yml")

\* the host documents a run may find: the main file and the files it refers to
FileName(i) == "api" \o ToString(i) \o (IF i % 2 = 1 THEN ".yaml" ELSE ".yml")

RECURSIVE Flat(_, _)
\* pendingWrites.flat(), pendingWrites in the order of files
Flat(paths, writes) ==
    IF Len(paths) = 0 THEN <<>> ELSE writes[Head(paths)] \o Flat(Tail(paths), writes)

Range(seq) == { seq[i] : i \in 1..Len(seq) }

\* pMap starts a mapper only while fewer than `concurrency` of them are running
BelowConcurrency(tasks) ==
    Cardinality({ k \in DOMAIN tasks : tasks[k] = "running" }) < CONCURRENCY

\* AllProcessed as it would be if the writes began with the first resolved processFile
SomeProcessed == \E f \in Range(files) : task[f] = "resolved"

\* await pMap(files, processFile): every processFile promise has resolved
AllProcessed == \A f \in Range(files) : task[f] = "resolved"

CliIdle ==
    /\ files = <<>>
    /\ phase = "idle"
    /\ task = EmptyObject
    /\ pendingWrites = EmptyObject
    /\ writeTask = <<>>
    /\ written = {}
    /\ exitCode = -1

\* process.exit(code)
ProcessExit(code) ==
    /\ phase' = "ended"
    /\ exitCode' = code

\* promises.access and findSpecFiles succeed: pMap(files, processFile) begins
FindSpecFiles ==
    /\ phase = "start"
    /\ \E n \in 1..MaxFiles :
        /\ files' = [i \in 1..n |-> FileName(i)]
        /\ task' = [f \in { FileName(i) : i \in 1..n } |-> "pending"]
        /\ pendingWrites' = [f \in { FileName(i) : i \in 1..n } |-> <<>>]
    /\ phase' = "processing"
    /\ UNCHANGED << writeTask, written, exitCode >>
    /\ UNCHANGED genVars

\* promises.access or parser.dereference rejects: the catch of main prints and exits
DiscoveryFails ==
    /\ phase = "start"
    /\ ProcessExit(1)
    /\ UNCHANGED << files, task, pendingWrites, writeTask, written >>
    /\ UNCHANGED genVars

\* pMap calls processFile for the next file (none once a mapper has rejected)
ProcessFileStart ==
    /\ phase = "processing"
    /\ BelowConcurrency(task)
    /\ \E i \in 1..Len(files) :
        /\ task[files[i]] = "pending"
        /\ \A j \in 1..(i - 1) : task[files[j]] # "pending"
        /\ task' = [task EXCEPT ![files[i]] = "running"]
    /\ UNCHANGED << files, phase, pendingWrites, writeTask, written, exitCode >>
    /\ UNCHANGED genVars

\* processFile returns: [] when the file has no annotation, else the host document and the
\* types document generateSchemas returned the schemas of
ProcessFileResolves ==
    /\ phase \in {"processing", "rejected"}
    /\ \E f \in Range(files) :
        /\ task[f] = "running"
        /\ task' = [task EXCEPT ![f] = "resolved"]
        /\ \E found \in BOOLEAN :
            pendingWrites' = SetKey(pendingWrites, f,
                                IF found THEN <<f, typesFileExtension(f)>> ELSE <<>>)
    /\ UNCHANGED << files, phase, writeTask, written, exitCode >>
    /\ UNCHANGED genVars

\* processFile throws (the parser, an assert, duplicate types): pMap rejects
ProcessFileRejects ==
    /\ phase \in {"processing", "rejected"}
    /\ \E f \in Range(files) :
        /\ task[f] = "running"
        /\ task' = [task EXCEPT ![f] = "rejected"]
    /\ phase' = "rejected"
    /\ UNCHANGED << files, pendingWrites, writeTask, written, exitCode >>
    /\ UNCHANGED genVars

\* process.exit(1) inside processFile: the import of a library fails, or processType
\* catches an error of a visit method
ProcessFileExits ==
    /\ phase \in {"processing", "rejected"}
    /\ \E f \in Range(files) :
        /\ task[f] = "running"
        /\ task' = [task EXCEPT ![f] = "exited"]
    /\ ProcessExit(1)
    /\ UNCHANGED << files, pendingWrites, writeTask, written >>
    /\ UNCHANGED genVars

\* the catch of main after a rejection: print the error, process.exit(1)
MainCatch ==
    /\ phase = "rejected"
    /\ ProcessExit(1)
    /\ UNCHANGED << files, task, pendingWrites, writeTask, written >>
    /\ UNCHANGED genVars

\* the first pMap resolves: pMap(pendingWrites.flat(), writeFile) begins
WritesBegin ==
    /\ phase = "processing"
    /\ AllProcessed
    /\ phase' = "writing"
    /\ writeTask' = [i \in 1..Len(Flat(files, pendingWrites)) |-> "pending"]
    /\ UNCHANGED << files, task, pendingWrites, written, exitCode >>
    /\ UNCHANGED genVars

\* pMap calls writeFile for the next WritableFile (none once a mapper has rejected)
WriteFileStart ==
    /\ phase = "writing"
    /\ BelowConcurrency(writeTask)
    /\ \E i \in 1..Len(writeTask) :
        /\ writeTask[i] = "pending"
        /\ \A j \in 1..(i - 1) : writeTask[j] # "pending"
        /\ writeTask' = [writeTask EXCEPT ![i] = "running"]
    /\ UNCHANGED << files, phase, task, pendingWrites, written, exitCode >>
    /\ UNCHANGED genVars

\* promises.writeFile has written the yaml
WriteFileResolves ==
    /\ phase \in {"writing", "rejected"}
    /\ \E i \in 1..Len(writeTask) :
        /\ writeTask[i] = "running"
        /\ writeTask' = [writeTask EXCEPT ![i] = "resolved"]
        /\ written' = written \cup {Flat(files, pendingWrites)[i]}
    /\ UNCHANGED << files, phase, task, pendingWrites, exitCode >>
    /\ UNCHANGED genVars

\* promises.writeFile rejects: pMap rejects
WriteFileRejects ==
    /\ phase \in {"writing", "rejected"}
    /\ \E i \in 1..Len(writeTask) :
        /\ writeTask[i] = "running"
        /\ writeTask' = [writeTask EXCEPT ![i] = "rejected"]
    /\ phase' = "rejected"
    /\ UNCHANGED << files, task, pendingWrites, written, exitCode >>
    /\ UNCHANGED genVars

\* the second pMap resolves and main returns: the process ends with exit code 0
MainReturns ==
    /\ phase = "writing"
    /\ \A i \in 1..Len(writeTask) : writeTask[i] = "resolved"
    /\ ProcessExit(0)
    /\ UNCHANGED << files, task, pendingWrites, writeTask, written >>
    /\ UNCHANGED genVars

\* ------------------------------------------------------------ generateSchemas

Entry(name, type) == [name |-> name, type |-> type]

\* the input mappings: an object has every key once, in insertion order
TypeDefs ==
    {<<>>}
    \cup { <<Entry(n, t)>> : n \in LogicalNames, t \in TypeIds }
    \cup { <<Entry(n1, t1), Entry(n2, t2)>> :
             <<n1, t1, n2, t2>> \in { x \in LogicalNames \X TypeIds \X LogicalNames \X TypeIds :
                                        x[1] # x[3] } }

\* generateSchemas(basePath, types) up to the call of visitor.processTypes()
Init ==
    /\ descriptors = [t \in TypeIds |-> Descriptor(t)]
    /\ basePathArg \in BasePaths
    /\ types \in TypeDefs
    /\ basePath = RefPrefix(basePathArg)
    /\ topLevelTypes = CollectTopLevel(types, <<>>)
    /\ schemas = EmptyObject
    /\ availableDefinitions = EmptyObject
    /\ typeStack = <<>>
    /\ frames = <<>>
    /\ cursor = 0
    /\ status = "running"
    /\ output = Undefined
    /\ error = NoError
    /\ reportedPath = <<>>
    /\ accepted = [t \in TypeIds |-> 0]
    /\ built = EmptyObject
    /\ registered = <<>>
    /\ calls = <<>>
    /\ CliIdle

Next ==
    \/ ProcessTypeAvailable
    \/ ProcessTypeAccept
    \/ ProcessTypeReturn
    \/ GenerateSchemasReturn

Spec == Init /\ [][Next]_vars

\* ------------------------------------------------------------ repeated calls

\* the types the input mappings of repeated calls are drawn from
RunTypeIds ==
    { "int", "Category", "Pet", "PetRef", "Owner", "FooA", "FooB", "Foos", "AB",
      "MaybeCategory", "Ones", "Holder" }

RunTypeDefs ==
    { ty \in TypeDefs : \A i \in 1..Len(ty) : ty[i].type \in RunTypeIds }

\* the arguments of the calls for two other files
OtherDocuments ==
    { [basePath |-> "components/schemas", types |-> <<Entry("Pet", "Pet")>>],
      [basePath |-> "components/schemas", types |-> <<Entry("Foo", "Owner"), Entry("Pet", "Pet")>>] }

\* readonly schemas: Schemas = {} of a new OpenApiDefinitionsGenerator, as kept from the
\* generator of the call before
NewSchemasKept == schemas

\* readonly schemas: Schemas = {} of a new OpenApiDefinitionsGenerator
NewSchemas == EmptyObject

\* the arguments of this call and of the calls before it
ArgumentsSoFar ==
    { [basePath |-> basePathArg, types |-> types] }
    \cup { [basePath |-> calls[i].basePath, types |-> calls[i].types] : i \in 1..Len(calls) }

\* generateSchemas has returned and the process calls it again, with arguments it has used
\* before or with those of another file: a new generator, up to visitor.processTypes()
GenerateSchemasAgain ==
    /\ status = "returned"
    /\ Len(calls) + 1 < MaxRuns
    /\ calls' = Append(calls, [basePath |-> basePathArg, types |-> types,
                               output |-> output, registered |-> registered])
    /\ \E arguments \in ArgumentsSoFar \cup OtherDocuments :
        /\ basePathArg' = arguments.basePath
        /\ types' = arguments.types
        /\ basePath' = RefPrefix(arguments.basePath)
        /\ topLevelTypes' = CollectTopLevel(arguments.types, <<>>)
    /\ schemas' = NewSchemas
    /\ availableDefinitions' = EmptyObject
    /\ typeStack' = <<>>
    /\ frames' = <<>>
    /\ cursor' = 0
    /\ status' = "running"
    /\ output' = Undefined
    /\ error' = NoError
    /\ reportedPath' = <<>>
    /\ accepted' = [t \in TypeIds |-> 0]
    /\ built' = EmptyObject
    /\ registered' = <<>>
    /\ UNCHANGED descriptors
    /\ UNCHANGED cliVars

InitRuns ==
    /\ Init
    /\ types \in RunTypeDefs

NextRuns ==
    \/ ProcessTypeAvailable
    \/ ProcessTypeAccept
    \/ ProcessTypeReturn
    \/ GenerateSchemasReturn
    \/ GenerateSchemasAgain

SpecRuns == InitRuns /\ [][NextRuns]_vars

\* the generator at rest, while the command line tool is looked at on its own
GenIdle ==
    /\ descriptors = EmptyObject
    /\ basePathArg = ""
    /\ types = <<>>
    /\ basePath = ""
    /\ topLevelTypes = <<>>
    /\ schemas = EmptyObject
    /\ availableDefinitions = EmptyObject
    /\ typeStack = <<>>
    /\ frames = <<>>
    /\ cursor = 0
    /\ status = "idle"
    /\ output = Undefined
    /\ error = NoError
    /\ reportedPath = <<>>
    /\ accepted = EmptyObject
    /\ built = EmptyObject
    /\ registered = <<>>
    /\ calls = <<>>

\* the command line tool with a readable OPENAPI_FILE argument, before main runs
InitCli ==
    /\ GenIdle
    /\ files = <<>>
    /\ phase = "start"
    /\ task = EmptyObject
    /\ pendingWrites = EmptyObject
    /\ writeTask = <<>>
    /\ written = {}
    /\ exitCode = -1

NextCli ==
    \/ FindSpecFiles
    \/ DiscoveryFails
    \/ ProcessFileStart
    \/ ProcessFileResolves
    \/ ProcessFileRejects
    \/ ProcessFileExits
    \/ MainCatch
    \/ WritesBegin
    \/ WriteFileStart
    \/ WriteFileResolves
    \/ WriteFileRejects
    \/ MainReturns

SpecCli == InitCli /\ [][NextCli]_vars

\* ------------------------------------------------------------ properties

\* the schemas a built schema holds for the processType calls of its visit method, in the
\* order of Children
SiteSchemas(p) ==
    CASE Type(p).kind = "array" -> <<built[p].items>>
      [] Type(p).kind = "object" ->
            [i \in 1..Len(Type(p).props) |-> built[p].properties[Type(p).props[i].name]]
      [] Type(p).kind = "union" ->
            IF IsNullable(p) THEN built[p].allOf
            ELSE IF Type(p).basicType = "boolean" THEN <<>>
            ELSE built[p].oneOf
      [] OTHER -> <<>>

\* the places of registered that hold type t
Registrations(t) == { i \in 1..Len(registered) : registered[i].type = t }

\* C1: a type with a usable name whose schema has been built is stored in the output table
\* exactly once, under one key, and every place that refers to it (a property, the items
\* of an array, a member of a union) holds the $ref stub of that key and nothing else.
C1_StoredOnceSharedRef ==
    \A t \in DOMAIN built :
        customName(t) # NoName =>
            /\ Cardinality(Registrations(t)) = 1
            /\ \A i \in Registrations(t) :
                /\ registered[i].key \in DOMAIN schemas
                /\ schemas[registered[i].key] = built[t]
                /\ \A p \in DOMAIN built :
                    \A j \in 1..Len(Children(p)) :
                        Children(p)[j] = t => SiteSchemas(p)[j] = Reference(registered[i].key)

\* a run has returned in which one named type is both the type of a property and the
\* element type of an array
C1_Witness ==
    /\ status = "returned"
    /\ \E t \in DOMAIN built :
        /\ customName(t) # NoName
        /\ \E p1 \in DOMAIN built, p2 \in DOMAIN built :
            /\ Type(p1).kind = "object"
            /\ Type(p2).kind = "array"
            /\ t \in Range(Children(p1))
            /\ t \in Range(Children(p2))

\* how many types with the chosen name of the i-th registered type were registered up to it
Rank(i) ==
    Cardinality({ j \in 1..i :
        customName(registered[j].type) = customName(registered[i].type) })

\* C2: every key of the output table belongs to one type and keeps the schema stored
\* under it, and the types that share a chosen name N are registered as N, N2, N3, ... in
\* the order they are met, the first one under N itself.
C2_SuffixesInOrder ==
    /\ \A i \in 1..Len(registered), j \in 1..Len(registered) :
            registered[i].key = registered[j].key => i = j
    /\ \A i \in 1..Len(registered) :
        /\ registered[i].key \in DOMAIN schemas
        /\ schemas[registered[i].key] = built[registered[i].type]
        /\ registered[i].key =
                IF Rank(i) = 1 THEN customName(registered[i].type)
                ELSE customName(registered[i].type) \o ToString(Rank(i))

\* C3: after a run that returned, every entry L -> D of the input mapping has the key L in
\* the output table, and the schema under L is the schema built for D.
C3_EntryUnderLogicalName ==
    status = "returned" =>
        \A i \in 1..Len(types) :
            /\ types[i].name \in DOMAIN schemas
            /\ [key |-> types[i].name, type |-> types[i].type] \in Range(registered)
            /\ types[i].type \in DOMAIN built
            /\ schemas[types[i].name] = built[types[i].type]

\* C4: type.accept is called at most once for every type in a run, whatever the paths that
\* lead to it, a path from the type to itself included.
C4_AcceptedAtMostOnce == \A t \in DOMAIN accepted : accepted[t] <= 1

\* a union of exactly two members of which exactly one is a null literal
NullableCase(u) ==
    /\ Type(u).kind = "union"
    /\ Len(Type(u).types) = 2
    /\ Cardinality({ i \in 1..2 : IsNullLiteral(Type(u).types[i]) }) = 1

\* its member that is not the null literal
OtherMember(u) == Type(u).types[CHOOSE i \in 1..2 : ~IsNullLiteral(Type(u).types[i])]

\* the name of a type: the one the caller supplied for a top-level entry, else its display name
GivenName(x) == IF MapHas(topLevelTypes, x) THEN MapGet(topLevelTypes, x) ELSE Type(x).name

\* C5: the schema of a union of a null literal and one other type X is exactly
\* {description: 'Nullable <name of X>', allOf: [<what processType(X) returned>],
\* nullable: true}, so it has no oneOf, and the visit of such a union never hands the null
\* literal to processType.
C5_NullableCollapse ==
    /\ \A u \in DOMAIN built :
        NullableCase(u) =>
            built[u] = ("description" :> "Nullable " \o GivenName(OtherMember(u)))
                       @@ ("allOf" :> <<availableDefinitions[OtherMember(u)]>>)
                       @@ ("nullable" :> TRUE)
    /\ \A i \in 1..(Len(typeStack) - 1) :
        NullableCase(typeStack[i]) => ~IsNullLiteral(typeStack[i + 1])

\* the schema of a nullable union of a named type has been built
C5_Witness ==
    \E u \in DOMAIN built :
        /\ NullableCase(u)
        /\ "$ref" \in DOMAIN availableDefinitions[OtherMember(u)]
        /\ accepted[OtherMember(u)] = 1

\* a union that is neither the nullable special case nor a union of booleans
GeneralUnion(u) ==
    Type(u).kind = "union" /\ ~IsNullable(u) /\ Type(u).basicType # "boolean"

\* value v of the discriminator has a member of u whose schema is a $ref stub and whose
\* property propertyName is the literal v
Resolves(u, propertyName, v) ==
    \E i \in 1..Len(Type(u).types) :
        /\ HasLiteralProp(Type(u).types[i], propertyName, v)
        /\ "$ref" \in DOMAIN availableDefinitions[Type(u).types[i]]

\* C6: the schema of a general union has a discriminator only if the union has exactly one
\* possible discriminator, of path length one, all of whose values resolve to a referenced
\* member; if one of the values does not resolve, the schema is the plain oneOf without a
\* discriminator; and the mapping of a discriminator has one entry per value.
C6_DiscriminatorAllOrNothing ==
    \A u \in DOMAIN built :
        GeneralUnion(u) =>
            LET pd == Type(u).possibleDiscriminators IN
            /\ "discriminator" \in DOMAIN built[u] =>
                /\ Len(pd) = 1
                /\ Len(pd[1].path) = 1
                /\ \A v \in Range(pd[1].values) : Resolves(u, pd[1].path[1], v)
                /\ Cardinality(DOMAIN built[u].discriminator.mapping)
                        = Cardinality(Range(pd[1].values))
            /\ ( /\ Len(pd) = 1
                 /\ Len(pd[1].path) = 1
                 /\ \E v \in Range(pd[1].values) : ~Resolves(u, pd[1].path[1], v) ) =>
                    /\ "discriminator" \notin DOMAIN built[u]
                    /\ "oneOf" \in DOMAIN built[u]

\* C7: a file is written only after processFile has resolved for every file found, and once
\* finding the files or a processFile has failed no file is written and the process ends
\* with exit code 1.
C7_NoWriteBeforeAllProcessed ==
    /\ written # {} => (files # <<>> /\ \A f \in Range(files) : task[f] = "resolved")
    /\ (\E f \in DOMAIN task : task[f] \in {"rejected", "exited"}) =>
            /\ written = {}
            /\ writeTask = <<>>
            /\ phase \in {"rejected", "ended"}
            /\ phase = "ended" => exitCode = 1
    /\ (phase = "ended" /\ files = <<>>) => (exitCode = 1 /\ written = {})

\* the process has ended after one processFile failed while another had returned files to
\* write
C7_Witness ==
    /\ phase = "ended"
    /\ exitCode = 1
    /\ \E f \in DOMAIN task, g \in DOMAIN task :
        /\ task[f] \in {"rejected", "exited"}
        /\ task[g] = "resolved"
        /\ pendingWrites[g] # <<>>

\* the processType call whose result the running code is about to hand to a visit method:
\* the visit method's type, the place of the call among its calls and the result
Delivery ==
    IF status = "running" /\ frames # <<>> /\ NextCall # "" /\ IsAvailable(NextCall)
    THEN [ some |-> TRUE, to |-> frames[Len(frames)].type,
           index |-> Len(frames[Len(frames)].results) + 1,
           schema |-> availableDefinitions[NextCall] ]
    ELSE IF status = "running" /\ Len(frames) >= 2 /\ NextCall = ""
    THEN [ some |-> TRUE, to |-> frames[Len(frames) - 1].type,
           index |-> Len(frames[Len(frames) - 1].results) + 1,
           schema |-> Definition(frames[Len(frames)].type,
                                 Accept(frames[Len(frames)].type, frames[Len(frames)].results)) ]
    ELSE [some |-> FALSE, to |-> "", index |-> 0, schema |-> EmptyObject]

\* the result is for a property of an object that has a metadata override, and is a $ref
OverrideOnRef ==
    /\ Delivery.some
    /\ Type(Delivery.to).kind = "object"
    /\ Type(Delivery.to).props[Delivery.index].name \in DOMAIN Type(Delivery.to).properties
    /\ "$ref" \in DOMAIN Delivery.schema

\* a schema that has a $ref has nothing else
PureRef(schema) == "$ref" \in DOMAIN schema => DOMAIN schema = {"$ref"}

\* C8 (the state part): every $ref placed in the properties of an object has $ref as its only
\* field, and the schema of a property with an override holds every field of the override.
C8_StubsStayPure ==
    /\ \A i \in 1..Len(frames) :
        Type(frames[i].type).kind = "object" =>
            \A j \in 1..Len(frames[i].results) : PureRef(frames[i].results[j])
    /\ \A t \in DOMAIN built :
        Type(t).kind = "object" =>
            \A prop \in PropNames(t) :
                /\ PureRef(built[t].properties[prop])
                /\ prop \in DOMAIN Type(t).properties =>
                    \A k \in DOMAIN Type(t).properties[prop] :
                        /\ k \in DOMAIN built[t].properties[prop]
                        /\ built[t].properties[prop][k] = Type(t).properties[prop][k]

\* C8: when the schema of a property that has a metadata override is a $ref, the run ends
\* there with an error that names the property and holds the override, and returns nothing;
\* and the state part above holds throughout.
C8_OverrideOnRefIsFatal ==
    /\ []C8_StubsStayPure
    /\ [][ OverrideOnRef =>
            /\ status' = "exit"
            /\ output' = Undefined
            /\ error'.prop = Type(Delivery.to).props[Delivery.index].name
            /\ error'.metadata = Type(Delivery.to).properties[error'.prop] ]_vars

\* a run has ended with the error of an override on a $ref property
C8_Witness ==
    /\ status = "exit"
    /\ error.prop # ""
    /\ error.metadata # EmptyObject
    /\ typeStack # <<>>
    /\ error.prop \in DOMAIN Type(typeStack[Len(typeStack)]).properties

\* C9: the schema built for a type holds every field of the type's metadata with the
\* metadata's value, and has the type's name as title when the type has a usable name.
C9_EverySchemaMerged ==
    \A t \in DOMAIN built :
        /\ \A k \in DOMAIN Type(t).metadata :
            /\ k \in DOMAIN built[t]
            /\ built[t][k] = Type(t).metadata[k]
        /\ customName(t) # NoName =>
            /\ "title" \in DOMAIN built[t]
            /\ built[t].title = customName(t)

\* a record, a custom type, a literal that is no number, string or boolean, or a string
\* whose pattern has flags
Unsupported(t) ==
    \/ Type(t).kind \in {"record", "custom"}
    \/ Type(t).kind = "literal" /\ Type(t).value.basic \notin {"number", "string", "boolean"}
    \/ /\ Type(t).kind = "string"
       /\ "pattern" \in DOMAIN Type(t).typeConfig
       /\ Type(t).typeConfig.pattern.flags # ""

\* C10: once type.accept has been called for an unsupported type the run has ended without
\* an output, the unsupported type is the innermost type of the stack, the stack is a chain
\* of processType calls from the top-level entry being processed, and the reported path is
\* the names of the types of that chain, outermost first.
C10_UnsupportedAborts ==
    \A t \in DOMAIN accepted :
        (accepted[t] > 0 /\ Unsupported(t)) =>
            /\ status = "exit"
            /\ output = Undefined
            /\ typeStack # <<>>
            /\ typeStack[Len(typeStack)] = t
            /\ cursor < Len(topLevelTypes)
            /\ typeStack[1] = topLevelTypes[cursor + 1].key
            /\ \A i \in 1..(Len(typeStack) - 1) :
                    typeStack[i + 1] \in Range(Children(typeStack[i]))
            /\ reportedPath = [i \in 1..Len(typeStack) |-> Type(typeStack[i]).name]

\* a run has ended at an unsupported type that is not a top-level entry
C10_Witness ==
    /\ status = "exit"
    /\ Len(reportedPath) >= 2
    /\ Unsupported(typeStack[Len(typeStack)])
    /\ accepted[typeStack[Len(typeStack)]] = 1

\* C11: a call of generateSchemas that returns gives the output, and stores the same keys
\* in the same order, as every earlier call of the process with the same basePath and the
\* same types; and what a running call finds in its memo and in its table of schemas was
\* put there by that call itself.
C11_SameArgumentsSameOutput ==
    /\ status = "returned" =>
        \A i \in 1..Len(calls) :
            (calls[i].basePath = basePathArg /\ calls[i].types = types) =>
                /\ calls[i].output = output
                /\ calls[i].registered = registered
    /\ \A t \in DOMAIN availableDefinitions : accepted[t] >= 1 /\ t \in DOMAIN built
    /\ DOMAIN schemas = { registered[i].key : i \in 1..Len(registered) }

\* the third call has returned; it has the arguments of the first, the second had others,
\* and it has stored a type under a name with a digit added
C11_Witness ==
    /\ status = "returned"
    /\ Len(calls) = 2
    /\ calls[1].basePath = basePathArg
    /\ calls[1].types = types
    /\ calls[2].types # types
    /\ calls[2].output # EmptyObject
    /\ \E i \in 1..Len(registered) : registered[i].key # GivenName(registered[i].type)

\* the properties of an object type that are not flagged partial
Mandatory(t) == { Type(t).props[i].name : i \in { j \in 1..Len(Type(t).props) : ~Type(t).props[j].partial } }

\* C12: the schema built for an object type has a required list that holds exactly the
\* properties not flagged partial, each once, and has no required field when the type has
\* no such property.
C12_RequiredExactlyMandatory ==
    \A t \in DOMAIN built :
        Type(t).kind = "object" =>
            IF Mandatory(t) = {}
            THEN "required" \notin DOMAIN built[t]
            ELSE /\ "required" \in DOMAIN built[t]
                 /\ Range(built[t].required) = Mandatory(t)
                 /\ Len(built[t].required) = Cardinality(Mandatory(t))

\* the schemas of an object type with partial properties only and of one with properties of
\* both kinds have been built
C12_Witness ==
    \E t \in DOMAIN built, u \in DOMAIN built :
        /\ Type(t).kind = "object" /\ Type(u).kind = "object"
        /\ Type(t).props # <<>>
        /\ Mandatory(t) = {}
        /\ Mandatory(u) # {}
        /\ Mandatory(u) # PropNames(u)

\* the display name of t is made of word characters only, is not the name of its basic
\* type, and t is no literal type
UsableName(t) ==
    /\ IsWord(Type(t).name)
    /\ Type(t).name # Type(t).basicType
    /\ Type(t).kind # "literal"

\* what the schema built for p holds at its j-th site is the whole schema built for t,
\* under the override of the property when p is an object that has one for it
InlinedAt(p, j, t) ==
    IF Type(p).kind = "object" /\ Type(p).props[j].name \in DOMAIN Type(p).properties
    THEN SiteSchemas(p)[j] = Spread(built[t], Type(p).properties[Type(p).props[j].name])
    ELSE SiteSchemas(p)[j] = built[t]

\* C13: a type that is not a top-level entry has its display name as title, an entry in the
\* table of schemas and a $ref stub when its display name is usable; otherwise it has no
\* title, no entry and no $ref, and its whole schema stands at every site that refers to it.
C13_NamedIffUsable ==
    \A t \in DOMAIN built :
        ~MapHas(topLevelTypes, t) =>
            IF UsableName(t)
            THEN /\ "title" \in DOMAIN built[t]
                 /\ built[t].title = Type(t).name
                 /\ Registrations(t) # {}
                 /\ "$ref" \in DOMAIN availableDefinitions[t]
            ELSE /\ "title" \notin DOMAIN built[t]
                 /\ Registrations(t) = {}
                 /\ availableDefinitions[t] = built[t]
                 /\ "$ref" \notin DOMAIN built[t]
                 /\ \A p \in DOMAIN built :
                        \A j \in 1..Len(Children(p)) :
                            Children(p)[j] = t => InlinedAt(p, j, t)

\* the segments of the basePath argument
Segments == IF basePathArg = "" THEN <<>> ELSE Split(basePathArg)

RECURSIVE Lookup(_, _)
\* the value found in doc by following path
Lookup(doc, path) == IF path = <<>> THEN doc ELSE Lookup(doc[Head(path)], Tail(path))

RECURSIVE PointerOf(_)
\* the pointer '#/a/b' of the path <<a, b>>
PointerOf(path) ==
    IF path = <<>> THEN "#"
    ELSE PointerOf(SubSeq(path, 1, Len(path) - 1)) \o "/" \o path[Len(path)]

\* the table of schemas in the document generateSchemas returned
OutputTable == Lookup(output, Segments)

RECURSIVE RefsOf(_)
\* every $ref string in a schema: its own, those of its properties, items, allOf and oneOf,
\* and those of the mapping of its discriminator
RefsOf(schema) ==
    (IF "$ref" \in DOMAIN schema THEN {schema["$ref"]} ELSE {})
    \cup (IF "items" \in DOMAIN schema THEN RefsOf(schema.items) ELSE {})
    \cup (IF "properties" \in DOMAIN schema
          THEN UNION { RefsOf(schema.properties[prop]) : prop \in DOMAIN schema.properties }
          ELSE {})
    \cup (IF "allOf" \in DOMAIN schema
          THEN UNION { RefsOf(schema.allOf[i]) : i \in 1..Len(schema.allOf) } ELSE {})
    \cup (IF "oneOf" \in DOMAIN schema
          THEN UNION { RefsOf(schema.oneOf[i]) : i \in 1..Len(schema.oneOf) } ELSE {})
    \cup (IF "discriminator" \in DOMAIN schema
          THEN { schema.discriminator.mapping[k] : k \in DOMAIN schema.discriminator.mapping }
          ELSE {})

\* ref is the pointer to a key of the returned table that holds the schema built for type t
PointsTo(ref, t) ==
    \E name \in DOMAIN OutputTable :
        /\ ref = PointerOf(Append(Segments, name))
        /\ OutputTable[name] = built[t]

\* C14: in the document a call of generateSchemas returned, every $ref string is the pointer
\* '#/<segments of basePath>/<name>' to a key of the returned table; a $ref at a site of a
\* schema points to the entry that holds the schema built for the type of that site, and an
\* entry of a discriminator mapping points to the entry of a member of the union whose
\* discriminating property is a literal with that key.
C14_ReferentialIntegrity ==
    status = "returned" =>
        /\ \A key \in DOMAIN OutputTable :
            \A ref \in RefsOf(OutputTable[key]) :
                \E name \in DOMAIN OutputTable : ref = PointerOf(Append(Segments, name))
        /\ \A p \in DOMAIN built :
            /\ \A j \in 1..Len(Children(p)) :
                "$ref" \in DOMAIN SiteSchemas(p)[j] =>
                    PointsTo(SiteSchemas(p)[j]["$ref"], Children(p)[j])
            /\ "discriminator" \in DOMAIN built[p] =>
                \A k \in DOMAIN built[p].discriminator.mapping :
                    \E i \in 1..Len(Type(p).types), v \in Range(Type(p).possibleDiscriminators[1].values) :
                        /\ PropertyKey(v) = k
                        /\ HasLiteralProp(Type(p).types[i], built[p].discriminator.propertyName, v)
                        /\ PointsTo(built[p].discriminator.mapping[k], Type(p).types[i])

\* a call with basePath 'components/schemas' has returned a document with a discriminator
\* mapping, a $ref in a property, and a type stored under a name with a digit added
C14_Witness ==
    /\ status = "returned"
    /\ Segments = <<"components", "schemas">>
    /\ \E u \in DOMAIN built : "discriminator" \in DOMAIN built[u]
    /\ \E p \in DOMAIN built :
        /\ Type(p).kind = "object"
        /\ \E j \in 1..Len(Children(p)) : "$ref" \in DOMAIN SiteSchemas(p)[j]
    /\ \E i \in 1..Len(registered) : registered[i].key # GivenName(registered[i].type)

====
